---- MODULE Spec2Model ----
(***************************************************************************)
(* A model of the expense-tracker backend (backend/auth.py,                *)
(* backend/main.py, backend/models.py): the credential hasher, the token   *)
(* issuer and verifier, registration, CSV ingestion of transactions and    *)
(* the filtered query.                                                     *)
(*                                                                         *)
(* Several specifications share the variables below; each one exercises    *)
(* one subsystem and leaves the variables of the others at their initial   *)
(* value:                                                                  *)
(*   SpecHash      hash_password / verify_password                         *)
(*   SpecToken     login, create_access_token, get_current_user, upload    *)
(*   SpecRegister  concurrent register requests                            *)
(*   SpecIngest    concurrent upload_transactions_csv requests             *)
(*   SpecUpload    upload_transactions_csv over valid and invalid files    *)
(*   SpecQuery     ingestion followed by get_my_transactions               *)
(***************************************************************************)
EXTENDS Integers, Sequences, FiniteSets, TLC

VARIABLES
    users,          \* table "users": sequence of rows, id = position
    transactions,   \* table "transactions": sequence of rows, id = position
    uploaded_files, \* table "uploaded_files": sequence of rows
    now,            \* the clock (datetime.utcnow()), in minutes
    tok,            \* SpecToken: the token last issued, with how and when
    resp,           \* the response of the request that completed last
    reqs,           \* the requests in flight: request id -> its position and locals
    pw              \* SpecHash: the inputs and results of hash/verify

vars == <<users, transactions, uploaded_files, now, tok, resp, reqs, pw>>

(***************************************************************************)
(* Optional values: Python's None is the empty tuple, a value v is <<v>>.  *)
(***************************************************************************)
None == <<>>
Some(v) == <<v>>
IsNone(o) == o = <<>>
Val(o) == o[1]

RECURSIVE SeqToSet(_)
SeqToSet(s) == IF s = <<>> THEN {} ELSE {Head(s)} \cup SeqToSet(Tail(s))

(***************************************************************************)
(* Bounds of the model.                                                    *)
(***************************************************************************)
PwExtra == 2        \* password byte lengths range over 72-PwExtra .. 72+PwExtra
PwVariants == 2     \* distinct byte strings modelled per length
MaxTime == 32       \* the clock stops here
MaxIssueTime == 0   \* tokens are issued up to this time
MaxFiles == 1       \* rows of uploaded_files
NumReq == 2         \* concurrent requests
MaxRows == 2        \* data rows of an uploaded CSV
MaxTx == 2          \* rows of transactions in SpecUpload and SpecQuery

(***************************************************************************)
(* auth.py: configuration.                                                 *)
(***************************************************************************)
SECRET_KEY == "secret123"
ACCESS_TOKEN_EXPIRE_MINUTES == 30
DEFAULT_EXPIRE_MINUTES == 15
BCRYPT_MAX_BYTES == 72
SHA256_DIGEST_BYTES == 32

(***************************************************************************)
(* Credential hasher.                                                      *)
(*                                                                         *)
(* A byte string is [n |-> its length, v |-> which string of that length]. *)
(* A password is identified with its UTF-8 encoding (encode is injective), *)
(* so its byte length is the n of its encoding.                            *)
(***************************************************************************)
PwLens == {SHA256_DIGEST_BYTES} \cup
          ((BCRYPT_MAX_BYTES - PwExtra) .. (BCRYPT_MAX_BYTES + PwExtra))
Passwords == [n : PwLens, v : 0 .. (PwVariants - 1)]
Salts == {"saltA", "saltB"}

Utf8(password) == password

\* hashlib.sha256(b).digest(): 32 raw bytes, distinct for distinct modelled
\* inputs.  The raw digest is an ordinary byte string: digest number k is the
\* 32-byte string [n |-> 32, v |-> k], which is also the encoding of a
\* 32-byte password when it is valid UTF-8 (here: when k < PwVariants).
Sha256(b) == [n |-> SHA256_DIGEST_BYTES,
              v |-> (b.n - (BCRYPT_MAX_BYTES + 1)) * PwVariants + b.v]

\* bcrypt.hashpw(b, salt): determined by the salt and the input bytes.
BcryptHashpw(b, salt) == [salt |-> salt, of |-> b]
\* bcrypt.checkpw(b, hashed): re-hash under the salt of `hashed` and compare.
BcryptCheckpw(b, hashed) == BcryptHashpw(b, hashed.salt) = hashed

PreHash(b) == IF b.n > BCRYPT_MAX_BYTES THEN Sha256(b) ELSE b

\* hash_password(password), with the salt bcrypt.gensalt() drew.
hash_password(password, salt) == BcryptHashpw(PreHash(Utf8(password)), salt)

verify_password(plain, hashed) == BcryptCheckpw(PreHash(Utf8(plain)), hashed)

(***************************************************************************)
(* Token issuer and verifier (python-jose, HS256).                         *)
(*                                                                         *)
(* A token is [well, key, sub, exp]: whether it is a decodable JWT, the    *)
(* key that signed it, and its claims (each optional).  Times are minutes. *)
(***************************************************************************)
Malformed == [well |-> FALSE, key |-> "", sub |-> None, exp |-> None]

\* jwt.encode(claims, key, algorithm=ALGORITHM)
JwtEncode(claims, key) ==
    [well |-> TRUE, key |-> key, sub |-> claims.sub, exp |-> claims.exp]

\* jwt.decode as it would be with the exp claim left unverified.
JwtDecodeNoExpiry(token, key, t) ==
    IF ~token.well \/ token.key # key
    THEN None
    ELSE Some([sub |-> token.sub, exp |-> token.exp])
\* jwt.decode(token, key, algorithms=[ALGORITHM]) at time t: the claims, or
\* None for a JWTError (undecodable, bad signature, or exp < t).
JwtDecode(token, key, t) ==
    IF ~token.well THEN None
    ELSE IF token.key # key THEN None
    ELSE IF ~IsNone(token.exp) /\ Val(token.exp) < t THEN None
    ELSE Some([sub |-> token.sub, exp |-> token.exp])

\* create_access_token(data, expires_delta) at time t.  `expires_delta or
\* timedelta(minutes=15)`: None and the falsy timedelta(0) both give 15.
create_access_token(data, expires_delta, t) ==
    LET delta == IF IsNone(expires_delta) \/ Val(expires_delta) = 0
                 THEN DEFAULT_EXPIRE_MINUTES
                 ELSE Val(expires_delta)
    IN JwtEncode([sub |-> data.sub, exp |-> Some(t + delta)], SECRET_KEY)

(***************************************************************************)
(* The users table and its lookups.                                        *)
(***************************************************************************)
Min(S) == CHOOSE x \in S : \A y \in S : x <= y

\* db.query(User).filter(User.email == email).first()
UserByEmail(us, email) ==
    LET S == {i \in 1 .. Len(us) : us[i].email = email}
    IN IF S = {} THEN None ELSE Some(us[Min(S)])
\* db.query(User).filter(User.username == username).first()
UserByUsername(us, username) ==
    LET S == {i \in 1 .. Len(us) : us[i].username = username}
    IN IF S = {} THEN None ELSE Some(us[Min(S)])

\* models.User(...) as register builds it; the id is the autoincrement key.
NewUser(us, uc, salt) ==
    [id |-> Len(us) + 1, name |-> uc.name, username |-> uc.username,
     email |-> uc.email, hashed_password |-> hash_password(uc.password, salt)]

PwAlice == [n |-> BCRYPT_MAX_BYTES, v |-> 0]
PwBob == [n |-> BCRYPT_MAX_BYTES + 1, v |-> 0]
PwWrong == [n |-> BCRYPT_MAX_BYTES, v |-> 1]
Alice == [name |-> "Alice", username |-> "alice", email |-> "a@x.io",
          password |-> PwAlice]
Bob == [name |-> "Bob", username |-> "bob", email |-> "b@x.io",
        password |-> PwBob]
UnknownEmail == "z@x.io"

\* The store after Alice and Bob registered, one after the other.
AliceOnly == <<NewUser(<<>>, Alice, "saltA")>>
TwoUsers == Append(AliceOnly, NewUser(AliceOnly, Bob, "saltB"))

(***************************************************************************)
(* get_current_user: the dependency of every protected endpoint.           *)
(* NoToken is a request without an Authorization header, which             *)
(* oauth2_scheme answers itself before get_current_user runs.              *)
(***************************************************************************)
NoToken == [well |-> FALSE, key |-> "absent", sub |-> None, exp |-> None]

CredentialsException ==
    [ok |-> FALSE, code |-> 401, detail |-> "Could not validate credentials"]
NotAuthenticated ==
    [ok |-> FALSE, code |-> 401, detail |-> "Not authenticated"]

get_current_user(token, us, t) ==
    LET payload == JwtDecode(token, SECRET_KEY, t) IN
    IF token = NoToken THEN NotAuthenticated
    ELSE IF IsNone(payload) THEN CredentialsException
    ELSE IF IsNone(Val(payload).sub) THEN CredentialsException
    ELSE LET user == UserByEmail(us, Val(Val(payload).sub)) IN
         IF IsNone(user) THEN CredentialsException
         ELSE [ok |-> TRUE, user |-> Val(user)]

(***************************************************************************)
(* CSV ingestion: upload_transactions_csv.                                 *)
(*                                                                         *)
(* An uploaded file is [filename, parses, columns, rows]: its name (a      *)
(* sequence of characters), whether pd.read_csv accepts its bytes, the     *)
(* header's column names and the data rows.  A row maps the column names   *)
(* to the cell texts; category cells are sequences of characters.          *)
(***************************************************************************)
RECURSIVE EndsWith(_, _)
\* str.endswith(suffix)
EndsWith(s, suffix) ==
    IF suffix = <<>> THEN TRUE
    ELSE IF s = <<>> THEN FALSE
    ELSE /\ s[Len(s)] = suffix[Len(suffix)]
         /\ EndsWith(SubSeq(s, 1, Len(s) - 1), SubSeq(suffix, 1, Len(suffix) - 1))

DotCsv == <<".", "c", "s", "v">>
NameCsv == <<"t", ".", "c", "s", "v">>
NameUpper == <<"t", ".", "C", "S", "V">>
NameTxt == <<"c", "s", "v", ".", "t", "x", "t">>

\* str.lower() on the type cells the model feeds in.
StrLower(s) ==
    CASE s = "Credit" -> "credit"
      [] s = "DEBIT" -> "debit"
      [] s = "XYZ" -> "xyz"
      [] OTHER -> s

\* pd.to_datetime(cell).date(): the calendar date as yyyymmdd, the time of
\* day dropped; None when pandas raises.
ParseDate(cell) ==
    CASE cell = "2024-01-01" -> Some(20240101)
      [] cell = "2024-02-01" -> Some(20240201)
      [] cell = "2024-02-01 10:30" -> Some(20240201)
      [] OTHER -> None

\* float(cell): None when Python raises ValueError.
ParseFloat(cell) ==
    CASE cell = "0" -> Some(0)
      [] cell = "50" -> Some(50)
      [] cell = "100" -> Some(100)
      [] cell = "-5" -> Some(-5)
      [] OTHER -> None

required_cols == {"amount", "type", "category", "description", "transaction_date"}

HttpError(code, detail, row) ==
    [ok |-> FALSE, code |-> code, detail |-> detail, row |-> row]

\* One iteration of the loop over df.iterrows() (lines 177-200): the
\* Transaction built from the row, or the exception that ends the request.
\* float() raising ValueError is not caught: the request ends as a 500.
RowStep(row, idx, user_id, req) ==
    LET tx_type == StrLower(row.type)
        tx_date == ParseDate(row.transaction_date)
        amount == ParseFloat(row.amount)
    IN  IF tx_type \notin {"credit", "debit"}
        THEN HttpError(400, "Invalid type", Some(idx + 2))
        ELSE IF IsNone(tx_date)
        THEN HttpError(400, "Invalid date", Some(idx + 2))
        ELSE IF IsNone(amount)
        THEN HttpError(500, "ValueError", None)
        ELSE [ok |-> TRUE,
              tx |-> [user_id |-> user_id, amount |-> Val(amount),
                      type |-> tx_type, category |-> row.category,
                      description |-> row.description,
                      transaction_date |-> Val(tx_date), req |-> req]]

RECURSIVE RowLoop(_, _, _, _, _)
\* The loop of lines 175-200 from data row idx (0-based) on, with the list
\* `acc` built so far: the complete list, or the first exception.
RowLoop(rows, idx, acc, user_id, req) ==
    IF idx >= Len(rows) THEN [ok |-> TRUE, transactions |-> acc]
    ELSE LET r == RowStep(rows[idx + 1], idx, user_id, req) IN
         IF ~r.ok THEN r
         ELSE RowLoop(rows, idx + 1, Append(acc, r.tx), user_id, req)

\* The checks of ValidateFile with the column check made after the loop
\* over the rows.
ValidateFileColumnsLast(file, user_id, req) ==
    LET r == RowLoop(file.rows, 0, <<>>, user_id, req) IN
    IF ~EndsWith(file.filename, DotCsv)
    THEN HttpError(400, "Only CSV files allowed", None)
    ELSE IF ~file.parses
    THEN HttpError(400, "Invalid CSV file", None)
    ELSE IF ~r.ok THEN r
    ELSE IF ~(required_cols \subseteq file.columns)
    THEN HttpError(400, "CSV must contain columns", None)
    ELSE r
\* Lines 160-200 for an authenticated caller: everything before the commit.
ValidateFile(file, user_id, req) ==
    IF ~EndsWith(file.filename, DotCsv)
    THEN HttpError(400, "Only CSV files allowed", None)
    ELSE IF ~file.parses
    THEN HttpError(400, "Invalid CSV file", None)
    ELSE IF ~(required_cols \subseteq file.columns)
    THEN HttpError(400, "CSV must contain columns", None)
    ELSE RowLoop(file.rows, 0, <<>>, user_id, req)

\* A commit that would lose the last row of the list.
CommitPrefix(txs, batch) ==
    IF batch = <<>> THEN txs ELSE txs \o SubSeq(batch, 1, Len(batch) - 1)
\* db.add_all(transactions); db.commit(): one database transaction.
CommitAll(txs, batch) == txs \o batch

\* The whole handler with its dependency, for a caller that runs alone:
\* the response and the transactions table afterwards.
upload_transactions_csv(token, file, us, txs, t, req) ==
    LET auth == get_current_user(token, us, t) IN
    IF ~auth.ok
    THEN [resp |-> [code |-> auth.code, detail |-> auth.detail, row |-> None],
          transactions |-> txs]
    ELSE LET v == ValidateFile(file, auth.user.id, req) IN
         IF ~v.ok
         THEN [resp |-> [code |-> v.code, detail |-> v.detail, row |-> v.row],
               transactions |-> txs]
         ELSE [resp |-> [code |-> 200,
                         detail |-> "Transactions imported successfully",
                         row |-> None, count |-> Len(v.transactions)],
               transactions |-> CommitAll(txs, v.transactions)]

(***************************************************************************)
(* The query: get_my_transactions.                                         *)
(***************************************************************************)
LowerChar(c) ==
    CASE c = "F" -> "f"
      [] c = "O" -> "o"
      [] c = "A" -> "a"
      [] OTHER -> c

RECURSIVE LikeMatch(_, _)
\* SQL `s ILIKE p`: % stands for any run of characters, _ for any one
\* character, every other character for itself whatever its case.
LikeMatch(p, s) ==
    IF p = <<>> THEN s = <<>>
    ELSE IF Head(p) = "%"
    THEN LikeMatch(Tail(p), s) \/ (s # <<>> /\ LikeMatch(p, Tail(s)))
    ELSE /\ s # <<>>
         /\ Head(p) = "_" \/ LowerChar(Head(p)) = LowerChar(Head(s))
         /\ LikeMatch(Tail(p), Tail(s))

NoFilters == [type |-> None, category |-> None, start_date |-> None,
              end_date |-> None, min_amount |-> None, max_amount |-> None]

\* The filters of Selected without the restriction to the caller's rows.
SelectedAnyOwner(tx, f, user_id) ==
    /\ (~IsNone(f.type) /\ Val(f.type) # "") => tx.type = Val(f.type)
    /\ (~IsNone(f.category) /\ Val(f.category) # <<>>) =>
           LikeMatch(<<"%">> \o Val(f.category) \o <<"%">>, tx.category)
    /\ ~IsNone(f.start_date) => tx.transaction_date >= Val(f.start_date)
    /\ ~IsNone(f.end_date) => tx.transaction_date <= Val(f.end_date)
    /\ ~IsNone(f.min_amount) => tx.amount >= Val(f.min_amount)
    /\ ~IsNone(f.max_amount) => tx.amount <= Val(f.max_amount)
\* The WHERE clause lines 224-244 build, on one row.  `if x:` is Python
\* truthiness (a non-empty string, any date); the amounts test `is not None`.
Selected(tx, f, user_id) ==
    /\ tx.user_id = user_id
    /\ (~IsNone(f.type) /\ Val(f.type) # "") => tx.type = Val(f.type)
    /\ (~IsNone(f.category) /\ Val(f.category) # <<>>) =>
           LikeMatch(<<"%">> \o Val(f.category) \o <<"%">>, tx.category)
    /\ ~IsNone(f.start_date) => tx.transaction_date >= Val(f.start_date)
    /\ ~IsNone(f.end_date) => tx.transaction_date <= Val(f.end_date)
    /\ ~IsNone(f.min_amount) => tx.amount >= Val(f.min_amount)
    /\ ~IsNone(f.max_amount) => tx.amount <= Val(f.max_amount)

\* query.order_by(transaction_date.desc()).all(): the selected rows (by id),
\* latest date first; the database orders rows of one date as it likes.
QueryResults(txs, f, user_id) ==
    LET ids == {i \in 1 .. Len(txs) : Selected(txs[i], f, user_id)}
        n == Cardinality(ids)
    IN {s \in [1 .. n -> ids] :
          /\ \A i, j \in 1 .. n : i # j => s[i] # s[j]
          /\ \A i, j \in 1 .. n :
                i < j => txs[s[i]].transaction_date >= txs[s[j]].transaction_date}

\* Query(None, regex="^(credit|debit)$") on the type parameter.
TypeParamValid(type) == IsNone(type) \/ Val(type) \in {"credit", "debit"}

GoodRow == [type |-> "Credit", transaction_date |-> "2024-01-01", amount |-> "100",
            category |-> <<"F", "o">>, description |-> "lunch"]
GoodFile == [filename |-> NameCsv, parses |-> TRUE, columns |-> required_cols,
             rows |-> <<GoodRow>>]

(***************************************************************************)
(* upload_csv and read_own_csv.  The bytes written under UPLOAD_DIR are    *)
(* not modelled: a stored row's file is there, since nothing deletes it.   *)
(***************************************************************************)
upload_csv(token, filename, us, files, t) ==
    LET auth == get_current_user(token, us, t) IN
    IF ~auth.ok
    THEN [resp |-> [code |-> auth.code, detail |-> auth.detail], files |-> files]
    ELSE IF ~EndsWith(filename, DotCsv)
    THEN [resp |-> [code |-> 400, detail |-> "Only CSV files allowed"],
          files |-> files]
    ELSE [resp |-> [code |-> 200, detail |-> "File uploaded successfully"],
          files |-> Append(files, [id |-> Len(files) + 1, filename |-> filename,
                                   owner_id |-> auth.user.id])]

read_own_csv(token, id, us, files, t) ==
    LET auth == get_current_user(token, us, t)
        S == {i \in 1 .. Len(files) :
                files[i].id = id /\ auth.ok /\ files[i].owner_id = auth.user.id}
    IN  IF ~auth.ok THEN [code |-> auth.code, detail |-> auth.detail]
        ELSE IF S = {} THEN [code |-> 403, detail |-> "Access denied"]
        ELSE [code |-> 200, detail |-> "rows of the file"]

(***************************************************************************)
(* The requests as actions.  A response records the request's inputs; user *)
(* is the id get_current_user resolved, changed whether a table changed.   *)
(***************************************************************************)
Tables == <<users, transactions, uploaded_files>>

ResolvedUser(token) ==
    LET auth == get_current_user(token, users, now) IN
    IF auth.ok THEN Some(auth.user.id) ELSE None

Login(email, password) ==
    LET db_user == UserByEmail(users, email) IN
    /\ resp.op = "none"
    /\ IF IsNone(db_user) \/ ~verify_password(password, Val(db_user).hashed_password)
       THEN /\ resp' = [op |-> "login", code |-> 401, detail |-> "Invalid credentials"]
            /\ tok' = tok
       ELSE /\ resp' = [op |-> "login", code |-> 200, detail |-> "bearer"]
            /\ tok' = Some([token |-> create_access_token(
                                          [sub |-> Some(Val(db_user).email)], None, now),
                            via |-> "login", at |-> now, ttl |-> None])
    /\ UNCHANGED <<users, transactions, uploaded_files, now, reqs, pw>>

\* create_access_token called directly, with or without expires_delta.
Issue(data, expires_delta) ==
    /\ resp.op = "none"
    /\ tok' = Some([token |-> create_access_token(data, expires_delta, now),
                    via |-> "create_access_token", at |-> now,
                    ttl |-> expires_delta])
    /\ UNCHANGED <<users, transactions, uploaded_files, now, resp, reqs, pw>>

\* The client reads the response; the next request may be sent.
Deliver ==
    /\ resp.op # "none"
    /\ resp' = [op |-> "none"]
    /\ UNCHANGED <<users, transactions, uploaded_files, now, tok, reqs, pw>>

Tick ==
    /\ resp.op = "none"
    /\ now < MaxTime
    /\ now' = now + 1
    /\ UNCHANGED <<users, transactions, uploaded_files, tok, resp, reqs, pw>>

UploadCsv(token, filename) ==
    LET out == upload_csv(token, filename, users, uploaded_files, now) IN
    /\ resp.op = "none"
    /\ Len(out.files) + Len(transactions) <= MaxFiles
    /\ uploaded_files' = out.files
    /\ UNCHANGED <<users, transactions, now, tok, reqs, pw>>
    /\ resp' = [op |-> "upload_csv", token |-> token, code |-> out.resp.code,
                detail |-> out.resp.detail, user |-> ResolvedUser(token),
                changed |-> Tables' # Tables]

ReadOwnCsv(token, id) ==
    LET out == read_own_csv(token, id, users, uploaded_files, now) IN
    /\ resp.op = "none"
    /\ UNCHANGED <<users, transactions, uploaded_files, now, tok, reqs, pw>>
    /\ resp' = [op |-> "read_own_csv", token |-> token, code |-> out.code,
                detail |-> out.detail, user |-> ResolvedUser(token),
                changed |-> Tables' # Tables]

UploadTransactionsCsv(token, file) ==
    LET out == upload_transactions_csv(token, file, users, transactions, now, 0) IN
    /\ resp.op = "none"
    /\ Len(out.transactions) <= MaxTx
    /\ transactions' = out.transactions
    /\ UNCHANGED <<users, uploaded_files, now, tok, reqs, pw>>
    /\ resp' = [op |-> "upload_transactions_csv", token |-> token, file |-> file,
                code |-> out.resp.code, detail |-> out.resp.detail,
                row |-> out.resp.row, user |-> ResolvedUser(token),
                changed |-> Tables' # Tables]

GetMyTransactions(token, f) ==
    LET auth == get_current_user(token, users, now) IN
    /\ resp.op = "none"
    /\ UNCHANGED <<users, transactions, uploaded_files, now, tok, reqs, pw>>
    /\ IF ~auth.ok
       THEN resp' = [op |-> "get_my_transactions", token |-> token, filters |-> f,
                     code |-> auth.code, detail |-> auth.detail, result |-> <<>>,
                     user |-> None, changed |-> Tables' # Tables]
       ELSE IF ~TypeParamValid(f.type)
       THEN resp' = [op |-> "get_my_transactions", token |-> token, filters |-> f,
                     code |-> 422, detail |-> "string does not match regex",
                     result |-> <<>>, user |-> Some(auth.user.id),
                     changed |-> Tables' # Tables]
       ELSE \E s \in QueryResults(transactions, f, auth.user.id) :
             resp' = [op |-> "get_my_transactions", token |-> token, filters |-> f,
                      code |-> 200, detail |-> "", result |-> s,
                      user |-> Some(auth.user.id), changed |-> Tables' # Tables]

(***************************************************************************)
(* SpecToken: tokens are issued by login or by create_access_token, time   *)
(* passes, and the protected endpoints are called with the token in hand,  *)
(* with no token, with an undecodable one or with one signed by another    *)
(* key.                                                                    *)
(***************************************************************************)
Forged == JwtEncode([sub |-> Some(Alice.email), exp |-> Some(MaxTime + 100)],
                    "attacker-key")

Presented == {NoToken, Malformed, Forged} \cup
             (IF IsNone(tok) THEN {} ELSE {Val(tok).token})

TokenData == {[sub |-> Some(Alice.email)], [sub |-> Some(UnknownEmail)],
              [sub |-> None]}
TokenTtls == {None, Some(0), Some(ACCESS_TOKEN_EXPIRE_MINUTES)}


InitToken ==
    /\ users = TwoUsers /\ transactions = <<>> /\ uploaded_files = <<>>
    /\ now = 0 /\ tok = None /\ resp = [op |-> "none"] /\ reqs = <<>>
    /\ pw = [pc |-> "idle"]

NextToken ==
    \/ \E e \in {Alice.email, Bob.email, UnknownEmail},
          p \in {PwAlice, PwBob, PwWrong} : now <= MaxIssueTime /\ Login(e, p)
    \/ \E d \in TokenData, ttl \in TokenTtls : now <= MaxIssueTime /\ Issue(d, ttl)
    \/ Tick
    \/ Deliver
    \/ \E t \in Presented, n \in {NameCsv, NameTxt} : UploadCsv(t, n)
    \/ \E t \in Presented : ReadOwnCsv(t, 1)
    \/ \E t \in Presented :
          /\ Len(transactions) + Len(uploaded_files) < MaxFiles
          /\ UploadTransactionsCsv(t, GoodFile)
    \/ \E t \in Presented : GetMyTransactions(t, NoFilters)

SpecToken == InitToken /\ [][NextToken]_vars

(***************************************************************************)
(* SpecRegister: register requests run concurrently (a sync endpoint runs  *)
(* in a worker thread, each with its own database session).  A request     *)
(* reads the table twice (lines 49-50), then decides and commits (lines    *)
(* 51-65); the other requests may run between these steps.                 *)
(***************************************************************************)
ReqIds == 1 .. NumReq
IdleReq == [pc |-> "idle"]
\* Requests are numbered in the order in which they arrive.
Arrives(r) ==
    /\ reqs[r].pc = "idle"
    /\ IF r = 1 THEN TRUE ELSE reqs[r - 1].pc # "idle"

UserCreates == [name : {"N"}, username : {Alice.username, Bob.username},
                email : {Alice.email, Bob.email}, password : {PwAlice}]

\* The UNIQUE indexes of users.username and users.email (models.py): the
\* INSERT of row u fails when one of them is already in the table.
UniqueViolation(us, u) ==
    \E i \in 1 .. Len(us) : us[i].username = u.username \/ us[i].email = u.email

RegQueryUsername(r, uc) ==
    /\ Arrives(r)
    /\ reqs' = [reqs EXCEPT ![r] =
                  [pc |-> "username_read", user |-> uc,
                   existing_username |-> UserByUsername(users, uc.username)]]
    /\ UNCHANGED <<users, transactions, uploaded_files, now, tok, resp, pw>>

RegQueryEmail(r) ==
    /\ reqs[r].pc = "username_read"
    /\ reqs' = [reqs EXCEPT ![r] =
                  [pc |-> "email_read", user |-> reqs[r].user,
                   existing_username |-> reqs[r].existing_username,
                   existing_email |-> UserByEmail(users, reqs[r].user.email)]]
    /\ UNCHANGED <<users, transactions, uploaded_files, now, tok, resp, pw>>

\* Lines 51-65: the two checks, then db.add and db.commit.  An INSERT the
\* unique indexes reject raises IntegrityError, which nothing catches: 500.
RegFinish(r, salt) ==
    LET q == reqs[r]
        new_user == NewUser(users, q.user, salt)
        out == IF ~IsNone(q.existing_username)
               THEN [code |-> 400, detail |-> "Username already exists"]
               ELSE IF ~IsNone(q.existing_email)
               THEN [code |-> 400, detail |-> "Email already exists"]
               ELSE IF UniqueViolation(users, new_user)
               THEN [code |-> 500, detail |-> "IntegrityError"]
               ELSE [code |-> 200, detail |-> "created"]
    IN  /\ q.pc = "email_read"
        /\ users' = IF out.code = 200 THEN Append(users, new_user) ELSE users
        /\ reqs' = [reqs EXCEPT ![r] =
                      [pc |-> "done", user |-> q.user, code |-> out.code,
                       detail |-> out.detail]]
        /\ UNCHANGED <<transactions, uploaded_files, now, tok, resp, pw>>

InitRegister ==
    /\ users = <<>> /\ transactions = <<>> /\ uploaded_files = <<>>
    /\ now = 0 /\ tok = None /\ resp = [op |-> "none"]
    /\ reqs = [r \in ReqIds |-> IdleReq]
    /\ pw = [pc |-> "idle"]

NextRegister ==
    \/ \E r \in ReqIds, uc \in UserCreates : RegQueryUsername(r, uc)
    \/ \E r \in ReqIds : RegQueryEmail(r)
    \/ \E r \in ReqIds, salt \in Salts : RegFinish(r, salt)

SpecRegister == InitRegister /\ [][NextRegister]_vars

(***************************************************************************)
(* Inputs of the ingestion specifications.                                 *)
(***************************************************************************)
SeqsUpTo(S, n) == UNION {[1 .. k -> S] : k \in 0 .. n}

\* Bearer tokens of Alice and of Bob, issued at time 0.
TokenAlice == create_access_token([sub |-> Some(Alice.email)], None, 0)
TokenBob == create_access_token([sub |-> Some(Bob.email)], None, 0)

CsvFile(rows) == [filename |-> NameCsv, parses |-> TRUE,
                  columns |-> required_cols, rows |-> rows]

BadTypeRow == [GoodRow EXCEPT !.type = "XYZ"]
BadAmountRow == [GoodRow EXCEPT !.amount = "abc"]
BadRow == [type |-> "XYZ", transaction_date |-> "31/31/2024", amount |-> "abc",
           category |-> <<"F", "o">>, description |-> "lunch"]

(***************************************************************************)
(* SpecUpload: upload_transactions_csv requests, one at a time, over files *)
(* with every mix of valid and invalid cells and over files that fail the  *)
(* checks made before the rows are read.                                   *)
(***************************************************************************)
UploadRows == [type : {"Credit", "XYZ"},
               transaction_date : {"2024-02-01 10:30", "31/31/2024"},
               amount : {"100", "abc"},
               category : {<<"F", "o">>}, description : {"lunch"}]

UploadFiles ==
    {CsvFile(rows) : rows \in SeqsUpTo(UploadRows, MaxRows)}
    \cup [filename : {NameCsv, NameUpper, NameTxt}, parses : BOOLEAN,
          columns : {required_cols, required_cols \ {"category"},
                     required_cols \cup {"note"}},
          rows : {<<>>, <<GoodRow>>, <<BadRow>>}]

InitUpload ==
    /\ users = TwoUsers /\ transactions = <<>> /\ uploaded_files = <<>>
    /\ now = 0 /\ tok = None /\ resp = [op |-> "none"] /\ reqs = <<>>
    /\ pw = [pc |-> "idle"]

NextUpload ==
    \/ \E t \in {TokenAlice, TokenBob, Forged}, f \in UploadFiles :
          UploadTransactionsCsv(t, f)
    \/ Deliver

SpecUpload == InitUpload /\ [][NextUpload]_vars

(***************************************************************************)
(* SpecIngest: upload_transactions_csv requests that overlap.  A request   *)
(* touches the database when its dependency reads the user and when it     *)
(* commits; everything between is local to the request.  The commit is one *)
(* database transaction: it stores the whole list, or the database raises  *)
(* and the session is closed without storing anything.                     *)
(***************************************************************************)
IngestRows == {GoodRow, BadTypeRow, BadAmountRow}
IngestFiles == {CsvFile(rows) : rows \in SeqsUpTo(IngestRows, MaxRows)}

\* Lines 155-200: the dependency, the file checks and the loop over the rows.
IngestValidate(r, token, file) ==
    LET auth == get_current_user(token, users, now)
        v == ValidateFile(file, auth.user.id, r)
    IN  /\ Arrives(r)
        /\ reqs' = [reqs EXCEPT ![r] =
              IF ~auth.ok
              THEN [pc |-> "done", token |-> token, file |-> file, user |-> None,
                    code |-> auth.code, detail |-> auth.detail]
              ELSE IF ~v.ok
              THEN [pc |-> "done", token |-> token, file |-> file,
                    user |-> Some(auth.user.id), code |-> v.code,
                    detail |-> v.detail]
              ELSE [pc |-> "validated", token |-> token, file |-> file,
                    user |-> Some(auth.user.id), pending |-> v.transactions]]
        /\ UNCHANGED <<users, transactions, uploaded_files, now, tok, resp, pw>>

\* Lines 202-208: db.add_all(transactions); db.commit(); the response.
IngestCommit(r) ==
    LET q == reqs[r] IN
    /\ q.pc = "validated"
    /\ transactions' = CommitAll(transactions, q.pending)
    /\ reqs' = [reqs EXCEPT ![r] =
                  [pc |-> "done", token |-> q.token, file |-> q.file,
                   user |-> q.user, code |-> 200,
                   detail |-> "Transactions imported successfully"]]
    /\ UNCHANGED <<users, uploaded_files, now, tok, resp, pw>>

\* db.commit() raising (the database is unreachable or rejects the flush):
\* nothing catches it, the response is a 500 and get_db closes the session.
IngestCommitFails(r) ==
    LET q == reqs[r] IN
    /\ q.pc = "validated"
    /\ transactions' = transactions
    /\ reqs' = [reqs EXCEPT ![r] =
                  [pc |-> "done", token |-> q.token, file |-> q.file,
                   user |-> q.user, code |-> 500, detail |-> "StorageError"]]
    /\ UNCHANGED <<users, uploaded_files, now, tok, resp, pw>>

InitIngest ==
    /\ users = TwoUsers /\ transactions = <<>> /\ uploaded_files = <<>>
    /\ now = 0 /\ tok = None /\ resp = [op |-> "none"]
    /\ reqs = [r \in ReqIds |-> IdleReq]
    /\ pw = [pc |-> "idle"]

NextIngest ==
    \/ \E r \in ReqIds, t \in {TokenAlice, TokenBob}, f \in IngestFiles :
          IngestValidate(r, t, f)
    \/ \E r \in ReqIds : IngestCommit(r)
    \/ \E r \in ReqIds : IngestCommitFails(r)

SpecIngest == InitIngest /\ [][NextIngest]_vars

(***************************************************************************)
(* SpecQuery: valid files are ingested, one request at a time, and either  *)
(* user queries with any combination of filters.                           *)
(***************************************************************************)
QueryRows ==
    {[type |-> "Credit", transaction_date |-> "2024-01-01", amount |-> "100",
      category |-> <<"F", "o">>, description |-> "a"],
     [type |-> "DEBIT", transaction_date |-> "2024-02-01", amount |-> "50",
      category |-> <<"a", "_">>, description |-> "b"],
     [type |-> "Credit", transaction_date |-> "2024-02-01 10:30", amount |-> "0",
      category |-> <<"F", "o">>, description |-> "c"],
     [type |-> "DEBIT", transaction_date |-> "2024-01-01", amount |-> "-5",
      category |-> <<"o", "a">>, description |-> "d"]}

QueryFiles == {CsvFile(rows) : rows \in SeqsUpTo(QueryRows, MaxRows) \ {<<>>}}

Opt(S) == {None} \cup {Some(x) : x \in S}
QueryFilters ==
    [type : Opt({"debit", "Debit"}),
     category : Opt({<<>>, <<"O">>, <<"_">>}),
     start_date : Opt({20240201}),
     end_date : Opt({20240101}),
     min_amount : Opt({0, 50}),
     max_amount : Opt({0, 50})]

InitQuery ==
    /\ users = TwoUsers /\ transactions = <<>> /\ uploaded_files = <<>>
    /\ now = 0 /\ tok = None /\ resp = [op |-> "none"] /\ reqs = <<>>
    /\ pw = [pc |-> "idle"]

NextQuery ==
    \/ \E t \in {TokenAlice, TokenBob}, f \in QueryFiles :
          UploadTransactionsCsv(t, f)
    \/ \E t \in {TokenAlice, TokenBob}, f \in QueryFilters :
          GetMyTransactions(t, f)
    \/ Deliver

SpecQuery == InitQuery /\ [][NextQuery]_vars

(***************************************************************************)
(* SpecHash: Init draws p, q and the salt; Hash applies hash_password to   *)
(* p, Verify applies verify_password to q and the stored hash.             *)
(***************************************************************************)
PwInit == [pc : {"start"}, p : Passwords, q : Passwords, salt : Salts,
           hashed : {None}, ok : {None}]

HashStep ==
    /\ pw.pc = "start"
    /\ pw' = [pw EXCEPT !.pc = "hashed",
                        !.hashed = Some(hash_password(pw.p, pw.salt))]
    /\ UNCHANGED <<users, transactions, uploaded_files, now, tok, resp, reqs>>

VerifyStep ==
    /\ pw.pc = "hashed"
    /\ pw' = [pw EXCEPT !.pc = "verified",
                        !.ok = Some(verify_password(pw.q, Val(pw.hashed)))]
    /\ UNCHANGED <<users, transactions, uploaded_files, now, tok, resp, reqs>>

InitHash ==
    /\ pw \in PwInit
    /\ users = <<>> /\ transactions = <<>> /\ uploaded_files = <<>>
    /\ now = 0 /\ tok = None /\ resp = [op |-> "none"] /\ reqs = <<>>

NextHash == HashStep \/ VerifyStep
SpecHash == InitHash /\ [][NextHash]_vars

(***************************************************************************)
(*                              The claims                                 *)
(***************************************************************************)
ProtectedOps == {"upload_csv", "read_own_csv", "upload_transactions_csv",
                 "get_my_transactions"}

\* The cases of a presented token that the claim lists as unauthenticated.
Unauthenticated(token, t) ==
    \/ ~token.well
    \/ token.key # SECRET_KEY
    \/ ~IsNone(token.exp) /\ Val(token.exp) < t
    \/ IsNone(token.sub)
    \/ \A i \in 1 .. Len(users) : users[i].email # Val(token.sub)

\* C3: a presented token that is undecodable, wrongly signed, expired,
\* without a subject or of an unknown subject gets the one generic 401, the
\* endpoint resolves no user and no table changes; any other presented token
\* is accepted and resolves to the user whose email is its subject.
C3_FailsClosedUniformly ==
    (resp.op \in ProtectedOps /\ resp.token # NoToken) =>
        IF Unauthenticated(resp.token, now)
        THEN /\ resp.code = 401
             /\ resp.detail = "Could not validate credentials"
             /\ IsNone(resp.user)
             /\ ~resp.changed
        ELSE /\ resp.code # 401
             /\ ~IsNone(resp.user)
             /\ users[Val(resp.user)].email = Val(resp.token.sub)

\* A validly signed token of an existing user, presented after its expiry to
\* the endpoint that writes uploaded_files, was answered 401.
C3_Witness ==
    /\ resp.op = "upload_csv"
    /\ resp.token.key = SECRET_KEY
    /\ resp.token.sub = Some(Alice.email)
    /\ Val(resp.token.exp) < now
    /\ resp.code = 401

Accepted == resp.code # 401

\* C4: a token returned by login is accepted up to 30 minutes after it was
\* issued and rejected afterwards; a token of create_access_token without a
\* ttl is accepted up to 15 minutes after it was issued and rejected
\* afterwards.
C4_LoginSessionWindow ==
    (resp.op \in ProtectedOps /\ ~IsNone(tok) /\ resp.token = Val(tok).token) =>
        /\ Val(tok).via = "login" =>
              (Accepted <=> now <= Val(tok).at + ACCESS_TOKEN_EXPIRE_MINUTES)
        /\ (/\ Val(tok).via = "create_access_token"
            /\ IsNone(Val(tok).ttl)
            /\ Val(tok).token.sub = Some(Alice.email)) =>
              (Accepted <=> now <= Val(tok).at + DEFAULT_EXPIRE_MINUTES)

\* C10: after hashing p and verifying q against the hash, the verification
\* succeeded exactly when q = p (for p of at most 72 bytes and of more).
C10_HashVerifyRoundTrip ==
    pw.pc = "verified" => (Val(pw.ok) <=> pw.q = pw.p)

\* The fields of register request uc that a stored user already holds.
TakenFields(us, uc) ==
    {f \in {"username", "email"} :
        \E i \in 1 .. Len(us) :
            IF f = "username" THEN us[i].username = uc.username
                              ELSE us[i].email = uc.email}

\* C5: a register request that completes while a stored user holds its
\* username or email ends with the 400 that names a taken field and leaves
\* the table as it was; and usernames and emails are pairwise distinct.
C5_DuplicateRegistration ==
    /\ \A r \in ReqIds :
          (reqs[r].pc = "done" /\ reqs[r].code # 200) =>
              /\ reqs[r].code = 400
              /\ \/ /\ reqs[r].detail = "Username already exists"
                    /\ "username" \in TakenFields(users, reqs[r].user)
                 \/ /\ reqs[r].detail = "Email already exists"
                    /\ "email" \in TakenFields(users, reqs[r].user)
    /\ \A i, j \in 1 .. Len(users) :
          i # j => /\ users[i].username # users[j].username
                   /\ users[i].email # users[j].email

(***************************************************************************)
(* The row rules as the claims state them.                                 *)
(***************************************************************************)
TypeRuleHolds(row) == StrLower(row.type) \in {"credit", "debit"}
DateRuleHolds(row) == ~IsNone(ParseDate(row.transaction_date))
AmountRuleHolds(row) == ~IsNone(ParseFloat(row.amount))
RowValid(row) == TypeRuleHolds(row) /\ DateRuleHolds(row) /\ AmountRuleHolds(row)

\* The rule a failing row fails first, in the order type, date, amount.
FirstFailingRule(row) ==
    IF ~TypeRuleHolds(row) THEN "Invalid type"
    ELSE IF ~DateRuleHolds(row) THEN "Invalid date"
    ELSE "Invalid amount"

FailingRows(rows) == {i \in 1 .. Len(rows) : ~RowValid(rows[i])}

\* The response of an ingestion whose caller was authenticated and whose
\* file passed the extension, parse and column checks.
RowsReached ==
    /\ resp.op = "upload_transactions_csv"
    /\ ~Unauthenticated(resp.token, now)
    /\ EndsWith(resp.file.filename, DotCsv)
    /\ resp.file.parses
    /\ required_cols \subseteq resp.file.columns

\* C6: when the first failing row of the file fails the amount rule alone,
\* the request ends with the 400 "Invalid amount" carrying that row's
\* number, and nothing is stored.
C6_InvalidAmountIsRowError ==
    (RowsReached /\ FailingRows(resp.file.rows) # {}) =>
        LET i == Min(FailingRows(resp.file.rows)) IN
        FirstFailingRule(resp.file.rows[i]) = "Invalid amount" =>
            /\ resp.code = 400
            /\ resp.detail = "Invalid amount"
            /\ resp.row = Some(i + 1)
            /\ ~resp.changed

\* C7: the error reported is the first failing rule (type, then date, then
\* amount) of the first failing row in file order, with the row number
\* 0-based index + 2.
C7_FirstFailureReported ==
    (RowsReached /\ FailingRows(resp.file.rows) # {}) =>
        LET i == Min(FailingRows(resp.file.rows)) IN
        /\ resp.detail = FirstFailingRule(resp.file.rows[i])
        /\ resp.row = Some((i - 1) + 2)

FileLevelDetails == {"Only CSV files allowed", "Invalid CSV file",
                     "CSV must contain columns"}

\* C8: the first failing step, in the order authentication, extension,
\* parse, required columns, rows, commit, decides the response; a file
\* without a required column gets the column error whatever its rows hold,
\* and nothing is stored by a request that fails.
C8_FileChecksInOrder ==
    resp.op = "upload_transactions_csv" =>
        IF Unauthenticated(resp.token, now)
        THEN resp.code = 401 /\ ~resp.changed
        ELSE IF ~EndsWith(resp.file.filename, DotCsv)
        THEN /\ resp.code = 400 /\ resp.detail = "Only CSV files allowed"
             /\ ~resp.changed
        ELSE IF ~resp.file.parses
        THEN /\ resp.code = 400 /\ resp.detail = "Invalid CSV file"
             /\ ~resp.changed
        ELSE IF ~(required_cols \subseteq resp.file.columns)
        THEN /\ resp.code = 400 /\ resp.detail = "CSV must contain columns"
             /\ IsNone(resp.row) /\ ~resp.changed
        ELSE IF FailingRows(resp.file.rows) # {}
        THEN /\ resp.code # 200 /\ resp.detail \notin FileLevelDetails
             /\ ~resp.changed
        ELSE /\ resp.code = 200
             /\ resp.changed <=> resp.file.rows # <<>>

\* A file that lacks the category column and whose only row is invalid in
\* every cell was answered with the column error.
C8_Witness ==
    /\ resp.op = "upload_transactions_csv"
    /\ resp.token = TokenAlice
    /\ resp.file.filename = NameCsv /\ resp.file.parses
    /\ "category" \notin resp.file.columns
    /\ resp.file.rows = <<BadRow>>
    /\ resp.detail = "CSV must contain columns"

\* The rows of the transactions table that request r stored.
TxOf(r) == SelectSeq(transactions, LAMBDA t : t.req = r)

\* C1: the rows one ingestion request stored are none or all the rows of
\* its file, in file order and for its caller; all only when every row is
\* valid and the request succeeded, none while it runs and none when it
\* ended with an error.
C1_AllOrNothing ==
    \A r \in ReqIds :
        LET q == reqs[r]
            mine == TxOf(r)
        IN  /\ q.pc # "done" => mine = <<>>
            /\ q.pc = "done" =>
                  /\ q.code # 200 => mine = <<>>
                  /\ q.code = 200 =>
                        /\ Len(mine) = Len(q.file.rows)
                        /\ \A i \in 1 .. Len(mine) :
                              /\ RowValid(q.file.rows[i])
                              /\ mine[i].user_id = Val(q.user)
                              /\ mine[i].amount = Val(ParseFloat(q.file.rows[i].amount))
                  /\ FailingRows(q.file.rows) # {} => q.code # 200

\* One request was rejected for the second row of its file, after a valid
\* first row, and another request of the same caller stored its rows.
C1_Witness ==
    \E r1, r2 \in ReqIds :
        /\ r1 # r2
        /\ reqs[r1].pc = "done" /\ reqs[r2].pc = "done"
        /\ reqs[r1].file.rows = <<GoodRow, BadTypeRow>>
        /\ reqs[r1].code = 400
        /\ reqs[r2].code = 200 /\ TxOf(r2) # <<>>
        /\ reqs[r1].user = reqs[r2].user

\* The id of the stored user whose email is the subject of the token.
CallerId(token) ==
    users[CHOOSE i \in 1 .. Len(users) : users[i].email = Val(token.sub)].id

\* C2: a query returns only rows whose user_id is the caller's id, and the
\* rows an ingestion stored carry the id of its caller.
C2_OwnerIsolation ==
    /\ (resp.op = "get_my_transactions" /\ resp.code = 200) =>
          \A i \in 1 .. Len(resp.result) :
              transactions[resp.result[i]].user_id = CallerId(resp.token)
    /\ (resp.op = "upload_transactions_csv" /\ resp.code = 200) =>
          \A k \in 1 .. Len(resp.file.rows) :
              transactions[Len(transactions) - Len(resp.file.rows) + k].user_id
                  = CallerId(resp.token)

\* Alice's unfiltered query returned a row while Bob has a row stored.
C2_Witness ==
    /\ resp.op = "get_my_transactions" /\ resp.code = 200
    /\ resp.token = TokenAlice
    /\ resp.filters = NoFilters
    /\ resp.result # <<>>
    /\ \E i \in 1 .. Len(transactions) : transactions[i].user_id = CallerId(TokenBob)

RECURSIVE LowerSeq(_)
LowerSeq(s) == IF s = <<>> THEN <<>> ELSE <<LowerChar(Head(s))>> \o LowerSeq(Tail(s))

\* text occurs in s, whatever the case of the letters.
ContainsIgnoringCase(s, text) ==
    \E k \in 1 .. (Len(s) - Len(text) + 1) :
        SubSeq(LowerSeq(s), k, k + Len(text) - 1) = LowerSeq(text)

\* The reference filter of the claim.
Satisfies(tx, f, user_id) ==
    /\ tx.user_id = user_id
    /\ ~IsNone(f.type) => tx.type = Val(f.type)
    /\ ~IsNone(f.category) => ContainsIgnoringCase(tx.category, Val(f.category))
    /\ ~IsNone(f.start_date) => Val(f.start_date) <= tx.transaction_date
    /\ ~IsNone(f.end_date) => tx.transaction_date <= Val(f.end_date)
    /\ ~IsNone(f.min_amount) => Val(f.min_amount) <= tx.amount
    /\ ~IsNone(f.max_amount) => tx.amount <= Val(f.max_amount)

\* C9: a query returns exactly the caller's rows that satisfy every
\* supplied filter, each once, ordered by transaction_date descending.
C9_QueryMatchesReference ==
    (resp.op = "get_my_transactions" /\ resp.code = 200) =>
        /\ SeqToSet(resp.result) =
              {i \in 1 .. Len(transactions) :
                  Satisfies(transactions[i], resp.filters, CallerId(resp.token))}
        /\ \A i, j \in 1 .. Len(resp.result) :
              i < j => /\ resp.result[i] # resp.result[j]
                       /\ transactions[resp.result[i]].transaction_date
                              >= transactions[resp.result[j]].transaction_date

====
